---- MODULE Spec2Model ----
(***************************************************************************)
(* Episode orchestrator (GameMatch, src/src/envs/game_match.rs) and        *)
(* environment facade (Gym, src/src/gym.rs) of rlgym-sim-rs.               *)
(*                                                                         *)
(* Every method of GameMatch and Gym is an operator from a "world" record  *)
(* (the fields of both structs, the simulation backend and the log of the  *)
(* calls made into the strategy components and the backend) to a result    *)
(* [w, ok, val]: the world after the call, whether the call returned (ok)  *)
(* or panicked, and the value returned.  A panic keeps the assignments     *)
(* made before it and ends the life of the environment.  The actions       *)
(* Reset, Step and UpdateSettings install the world a whole call produces. *)
(*                                                                         *)
(* The strategy components and the backend are outside the orchestrator    *)
(* core.  The backend keeps one car per agent of the configuration it was  *)
(* last given (at creation, by set_game_config) or of the wrapper it last  *)
(* adopted (set_state); it keeps the scores across set_state.  The State   *)
(* Setter's wrapper does not depend on the seed state it is offered.       *)
(***************************************************************************)
EXTENDS Integers, Sequences, FiniteSets, TLC

VARIABLES
    game_config,     \* GameMatch.game_config: [team_size, spawn_opponents]
    agents,          \* GameMatch.agents
    use_single_obs,  \* GameMatch.use_single_obs
    obs_builder,     \* GameMatch._obs_builder: sequence of builder instances
    prev_actions,    \* GameMatch._prev_actions
    spectator_ids,   \* GameMatch._spectator_ids
    initial_score,   \* GameMatch._initial_score
    sim_wrapper,     \* GameMatch.sim_wrapper: the simulation backend
    prev_state,      \* Gym._prev_state
    episode_start,   \* history: the snapshot passed to the latest episode_reset
    updates,         \* how many times the settings were updated
    calls,           \* calls made by the last facade/orchestrator operation
    ret              \* the last operation: its inputs and what it returned

vars == <<game_config, agents, use_single_obs, obs_builder, prev_actions,
          spectator_ids, initial_score, sim_wrapper, prev_state,
          episode_start, updates, calls, ret>>

----------------------------------------------------------------------------
(* Bounds of the model *)

\* team_size ranges over 1..MaxTeamSize
MaxTeamSize == 1
\* at most MaxGoals goals are scored, by both teams together
MaxGoals == 1
\* the settings are updated at most MaxUpdates times
MaxUpdates == 1
\* observation builder sets hold 0..MaxBuilders instances
MaxBuilders == 2

\* controller degrees of freedom: the length of one action vector
ACTION_LEN == 8
\* capacity of the spectator id slots at construction
SPECTATOR_SLOTS == 6

----------------------------------------------------------------------------
(* Values *)

Min(a, b) == IF a <= b THEN a ELSE b

Configs == [team_size : 1..MaxTeamSize, spawn_opponents : BOOLEAN]

\* vec![0.; 8]
ZeroAction == [k \in 1..ACTION_LEN |-> 0]
\* a raw action with every control pushed beyond its range
FullAction == [k \in 1..ACTION_LEN |-> 2]
\* a raw action vector that does not have 8 entries
ShortAction == <<1>>

\* GameState::new(None): no players, 0-0
EmptyState == [players |-> <<>>, blue_score |-> 0, orange_score |-> 0]

NoWrapper == [cars |-> <<>>, is_reset |-> FALSE]

\* one logged call: the callee, the instance or flag it concerns, the player
\* it is about, the snapshot, the actions and the state wrapper passed
Call(fn, who, car, st, acts, wrap) ==
    [fn |-> fn, who |-> who, car |-> car, st |-> st, acts |-> acts, wrap |-> wrap]

OnState(fn, who, car, st) == Call(fn, who, car, st, <<>>, NoWrapper)

\* builder instances handed over at construction are 1, 2, ...; the instances
\* of a set passed to update_settings are 11, 12, ...
InitialBuilders(n) == [i \in 1..n |-> i]
ReplacementBuilders(n) == [i \in 1..n |-> 10 + i]

----------------------------------------------------------------------------
(* Results of a call: returned normally with a value, or panicked *)

Ok(w, val) == [w |-> w, ok |-> TRUE, val |-> val]
Panic(w) == [w |-> w, ok |-> FALSE, val |-> <<>>]

Log(w, cs) == [w EXCEPT !.calls = @ \o cs]

Some(v) == [some |-> TRUE, val |-> v]
None == [some |-> FALSE, val |-> 0]
NoBuilders == [some |-> FALSE, val |-> <<>>]

----------------------------------------------------------------------------
(* The collaborators the orchestrator calls: strategy components and the   *)
(* simulation backend.  Their code is outside the orchestrator core; they  *)
(* are modelled by their interface contracts.                              *)

\* Action Parser: one simulator-ready vector per raw vector, same order, same
\* cardinality; each control is clamped to -1..1
ParseOne(v) == [k \in DOMAIN v |-> IF v[k] > 1 THEN 1 ELSE IF v[k] < -1 THEN -1 ELSE v[k]]
ActionParser_parse_actions(actions, state) == [i \in 1..Len(actions) |-> ParseOne(actions[i])]

\* Observation Builder b: the observation it builds for a player of a snapshot
ObsBuilder_build_obs(b, player, state) == [by |-> b, car |-> player, st |-> state]

\* Reward Function: the scalar of get_reward / get_final_reward
RewardFn_get_reward(player, state) == [kind |-> "reward", car |-> player, st |-> state]
RewardFn_get_final_reward(player, state) == [kind |-> "final_reward", car |-> player, st |-> state]

\* State Setter: a wrapper with one car per agent of the requested match shape
StateSetter_build_wrapper(team_size, spawn_opponents) ==
    [cars |-> [i \in 1..(IF spawn_opponents THEN 2 * team_size ELSE team_size) |-> i],
     is_reset |-> FALSE]
StateSetter_reset(wrapper) == [wrapper EXCEPT !.is_reset = TRUE]

\* Simulation Backend: the snapshot of its current state
Snapshot(sim) == [players |-> sim.cars, blue_score |-> sim.blue_score,
                  orange_score |-> sim.orange_score]

\* create(config): one car per agent of the configuration, 0-0
RocketsimWrapper_new(config) ==
    [config |-> config,
     cars |-> [i \in 1..(IF config.spawn_opponents THEN 2 * config.team_size
                         ELSE config.team_size) |-> i],
     blue_score |-> 0, orange_score |-> 0]

\* force_state: the backend adopts the wrapper's cars; the scores stay
RocketsimWrapper_set_state(sim, wrapper) == [sim EXCEPT !.cars = wrapper.cars]

\* advance: one control step; goal is what happened during it
RocketsimWrapper_step(sim, actions, goal) ==
    [sim EXCEPT !.blue_score = IF goal = "blue" THEN @ + 1 ELSE @,
                !.orange_score = IF goal = "orange" THEN @ + 1 ELSE @]

\* reconfigure: the cars follow the new configuration; a restart clears the
\* scores
RocketsimWrapper_set_game_config(sim, config, restart) ==
    [sim EXCEPT !.config = config,
                !.cars = [i \in 1..(IF config.spawn_opponents THEN 2 * config.team_size
                                    ELSE config.team_size) |-> i],
                !.blue_score = IF restart THEN 0 ELSE @,
                !.orange_score = IF restart THEN 0 ELSE @]

----------------------------------------------------------------------------
(* GameMatch: the episode orchestrator (src/src/envs/game_match.rs) *)

\* GameMatch::new, line 87
num_agents(config) ==
    IF config.spawn_opponents THEN config.team_size * 2 ELSE config.team_size

\* GameMatch::new: the orchestrator right after construction.  The facade's
\* _prev_state (GameState::new(None), Gym::new) is part of the same world.
GameMatch_new(config, builders, single) ==
    [game_config |-> config,
     agents |-> num_agents(config),
     use_single_obs |-> single,
     obs_builder |-> builders,
     prev_actions |-> [i \in 1..num_agents(config) |-> ZeroAction],
     spectator_ids |-> [i \in 1..SPECTATOR_SLOTS |-> 0],
     initial_score |-> 0,
     sim_wrapper |-> RocketsimWrapper_new(config),
     prev_state |-> EmptyState,
     episode_start |-> EmptyState,
     terminal_condition |-> [truncates |-> FALSE],
     calls |-> <<>>]

\* mutant of reset_targets: every builder held is reset, shared mode or not
reset_targets_all(w) == w.obs_builder

\* the instances episode_reset forwards reset to (lines 115-119); indexing
\* _obs_builder[0] of an empty Vec panics
reset_targets(w) ==
    IF w.use_single_obs THEN <<w.obs_builder[1]>> ELSE w.obs_builder

\* mutant of episode_reset: the previous actions are kept
episode_reset_keeps_actions(w, initial_state) ==
    LET w1 == [w EXCEPT !.spectator_ids = initial_state.players,
                        !.episode_start = initial_state]
        w2 == Log(w1, <<OnState("game_match.episode_reset", 0, 0, initial_state),
                        OnState("terminal_condition.reset", 0, 0, initial_state),
                        OnState("reward_fn.reset", 0, 0, initial_state)>>)
    IN  IF w.use_single_obs /\ Len(w.obs_builder) = 0
        THEN Panic(w2)
        ELSE LET targets == reset_targets(w2)
                 w3 == Log(w2, [i \in 1..Len(targets) |->
                                   OnState("obs_builder.reset", targets[i], 0, initial_state)])
             IN  Ok([w3 EXCEPT !.initial_score =
                                   initial_state.blue_score - initial_state.orange_score],
                    <<>>)

\* GameMatch::episode_reset
episode_reset(w, initial_state) ==
    LET w1 == [w EXCEPT !.spectator_ids = initial_state.players,
                        !.prev_actions = [i \in 1..w.agents |-> ZeroAction],
                        !.episode_start = initial_state]
        w2 == Log(w1, <<OnState("game_match.episode_reset", 0, 0, initial_state),
                        OnState("terminal_condition.reset", 0, 0, initial_state),
                        OnState("reward_fn.reset", 0, 0, initial_state)>>)
    IN  IF w.use_single_obs /\ Len(w.obs_builder) = 0
        THEN Panic(w2)
        ELSE LET targets == reset_targets(w2)
                 w3 == Log(w2, [i \in 1..Len(targets) |->
                                   OnState("obs_builder.reset", targets[i], 0, initial_state)])
             IN  Ok([w3 EXCEPT !.initial_score =
                                   initial_state.blue_score - initial_state.orange_score],
                    <<>>)

\* mutant of enough_obs_builders: the assertion is gone
enough_obs_builders_unchecked(single, obs_build_len, player_len) == TRUE

\* the assertion of build_observations, lines 124-128
enough_obs_builders(single, obs_build_len, player_len) ==
    single \/ obs_build_len >= player_len

\* mutant of build_single: pre_step is called inside the per-player loop
build_single_pre_step_each(w, state) ==
    LET b == w.obs_builder[1]
        n == Len(state.players)
    IN  Ok(Log(w, [k \in 1..(2 * n) |->
                      IF k % 2 = 1 THEN OnState("obs_builder.pre_step", b, 0, state)
                      ELSE OnState("obs_builder.build_obs", b, state.players[k \div 2], state)]),
           [i \in 1..n |-> ObsBuilder_build_obs(b, state.players[i], state)])

\* build_observations, shared builder (lines 130-136): pre_step once, then one
\* build per player
build_single(w, state) ==
    LET b == w.obs_builder[1]
        n == Len(state.players)
    IN  Ok(Log(w, <<OnState("obs_builder.pre_step", b, 0, state)>>
                  \o [i \in 1..n |-> OnState("obs_builder.build_obs", b, state.players[i], state)]),
           [i \in 1..n |-> ObsBuilder_build_obs(b, state.players[i], state)])

\* mutant of build_zipped: pre_step reaches only the builders that build
build_zipped_paired_pre_step(w, state) ==
    LET nb == Len(w.obs_builder)
        n == Min(Len(state.players), nb)
    IN  Ok(Log(w, [i \in 1..n |-> OnState("obs_builder.pre_step", w.obs_builder[i], 0, state)]
                  \o [i \in 1..n |-> OnState("obs_builder.build_obs", w.obs_builder[i],
                                             state.players[i], state)]),
           [i \in 1..n |-> ObsBuilder_build_obs(w.obs_builder[i], state.players[i], state)])

\* build_observations, one builder per slot (lines 137-145): pre_step on every
\* instance, then players zipped with builders
build_zipped(w, state) ==
    LET nb == Len(w.obs_builder)
        n == Min(Len(state.players), nb)
    IN  Ok(Log(w, [i \in 1..nb |-> OnState("obs_builder.pre_step", w.obs_builder[i], 0, state)]
                  \o [i \in 1..n |-> OnState("obs_builder.build_obs", w.obs_builder[i],
                                             state.players[i], state)]),
           [i \in 1..n |-> ObsBuilder_build_obs(w.obs_builder[i], state.players[i], state)])

\* mutant of build_observations: the builders are checked against the players
\* after the builders have run
build_observations_late_assert(w, state) ==
    IF w.use_single_obs
    THEN IF Len(w.obs_builder) = 0 THEN Panic(w) ELSE build_single(w, state)
    ELSE IF ~enough_obs_builders(w.use_single_obs, Len(w.obs_builder), Len(state.players))
         THEN Panic(build_zipped(w, state).w)
         ELSE build_zipped(w, state)

\* GameMatch::build_observations
build_observations(w, state) ==
    IF ~enough_obs_builders(w.use_single_obs, Len(w.obs_builder), Len(state.players))
    THEN Panic(w)
    ELSE IF w.use_single_obs
         THEN IF Len(w.obs_builder) = 0 THEN Panic(w) ELSE build_single(w, state)
         ELSE build_zipped(w, state)

\* mutant of reward_of: done is ignored
reward_of_never_final(done, player, state) == RewardFn_get_reward(player, state)

\* the reward pushed for one player (lines 154-158)
reward_of(done, player, state) ==
    IF done THEN RewardFn_get_final_reward(player, state)
    ELSE RewardFn_get_reward(player, state)

\* mutant of get_rewards: the first player is skipped
get_rewards_skip_first(w, state, done) ==
    LET n == Len(state.players)
        rewards == [i \in 1..(n - 1) |-> reward_of(done, state.players[i + 1], state)]
    IN  Ok(Log(w, <<OnState("reward_fn.pre_step", 0, 0, state)>>
                  \o [i \in 1..(n - 1) |-> OnState(IF rewards[i].kind = "final_reward"
                                                     THEN "reward_fn.get_final_reward"
                                                     ELSE "reward_fn.get_reward",
                                                     0, state.players[i + 1], state)]),
           rewards)

\* mutant of get_rewards: the score the episode is measured from is moved to
\* the snapshot rewarded
get_rewards_rebaselines(w, state, done) ==
    LET n == Len(state.players)
        rewards == [i \in 1..n |-> reward_of(done, state.players[i], state)]
    IN  Ok(Log([w EXCEPT !.initial_score = state.blue_score - state.orange_score],
               <<OnState("reward_fn.pre_step", 0, 0, state)>>
               \o [i \in 1..n |-> OnState(IF rewards[i].kind = "final_reward"
                                          THEN "reward_fn.get_final_reward"
                                          ELSE "reward_fn.get_reward",
                                          0, state.players[i], state)]),
           rewards)

\* GameMatch::get_rewards
get_rewards(w, state, done) ==
    LET n == Len(state.players)
        rewards == [i \in 1..n |-> reward_of(done, state.players[i], state)]
    IN  Ok(Log(w, <<OnState("reward_fn.pre_step", 0, 0, state)>>
                  \o [i \in 1..n |-> OnState(IF rewards[i].kind = "final_reward"
                                                     THEN "reward_fn.get_final_reward"
                                                     ELSE "reward_fn.get_reward",
                                             0, state.players[i], state)]),
           rewards)

\* mutant of is_done: a truncated tick is done too
is_done_or_truncated(w, state, is_terminal) ==
    Ok(Log(w, <<OnState("terminal_condition.is_terminal", 0, 0, state),
                OnState("terminal_condition.is_truncated", 0, 0, state)>>),
       is_terminal \/ w.terminal_condition.truncates)

\* GameMatch::is_done: the Terminal Condition's answer is_terminal
is_done(w, state, is_terminal) ==
    Ok(Log(w, <<OnState("terminal_condition.is_terminal", 0, 0, state)>>), is_terminal)

\* GameMatch::is_truncated
is_truncated(w, state, truncated) ==
    Ok(Log(w, <<OnState("terminal_condition.is_truncated", 0, 0, state)>>), truncated)

\* mutant of get_result: the absolute score differential
get_result_absolute(w, state) == state.blue_score - state.orange_score

\* GameMatch::get_result
get_result(w, state) ==
    LET current_score == state.blue_score - state.orange_score
    IN  current_score - w.initial_score

\* mutant of same_cardinality: surplus actions pass
same_cardinality_at_least(acts_len, players_len) == acts_len >= players_len

\* the assertion of parse_actions, line 190
same_cardinality(acts_len, players_len) == acts_len = players_len

\* mutant of parse_actions: the parsed actions are stored before they are
\* counted
parse_actions_store_first(w, actions, state) ==
    LET parsed_actions == ActionParser_parse_actions(actions, state)
        w1 == Log([w EXCEPT !.prev_actions = parsed_actions],
                  <<Call("action_parser.parse_actions", 0, 0, state, actions, NoWrapper)>>)
    IN  IF ~same_cardinality(Len(parsed_actions), Len(state.players))
        THEN Panic(w1)
        ELSE Ok(w1, parsed_actions)

\* GameMatch::parse_actions
parse_actions(w, actions, state) ==
    LET parsed_actions == ActionParser_parse_actions(actions, state)
        w1 == Log(w, <<Call("action_parser.parse_actions", 0, 0, state, actions, NoWrapper)>>)
    IN  IF ~same_cardinality(Len(parsed_actions), Len(state.players))
        THEN Panic(w1)
        ELSE Ok([w1 EXCEPT !.prev_actions = parsed_actions], parsed_actions)

\* mutant of get_reset_state: the setter's reset is not applied
get_reset_state_unreset(w) ==
    LET built == StateSetter_build_wrapper(w.game_config.team_size,
                                         w.game_config.spawn_opponents)
    IN  Ok(Log(w, <<Call("state_setter.build_wrapper", w.game_config.team_size,
                         IF w.game_config.spawn_opponents THEN 1 ELSE 0,
                         EmptyState, <<>>, built)>>),
           built)

\* GameMatch::get_reset_state
get_reset_state(w) ==
    LET built == StateSetter_build_wrapper(w.game_config.team_size,
                                         w.game_config.spawn_opponents)
        new_state == StateSetter_reset(built)
    IN  Ok(Log(w, <<Call("state_setter.build_wrapper", w.game_config.team_size,
                         IF w.game_config.spawn_opponents THEN 1 ELSE 0,
                         EmptyState, <<>>, built),
                    Call("state_setter.reset", 0, 0, EmptyState, <<>>, built)>>),
           new_state)

\* GameMatch::set_seeds
set_seeds(w, seed) ==
    Log(w, <<OnState("state_setter.set_seed", seed, 0, EmptyState)>>)

\* mutant of car_count: the opponents are not counted
car_count_no_opponents(new_config) == new_config.team_size

\* update_settings, lines 212-216
car_count(new_config) ==
    IF new_config.spawn_opponents THEN new_config.team_size * 2 ELSE new_config.team_size

\* mutant of update_settings: agents keeps the value of construction
update_settings_stale_agents(w, new_config, new_obs_builder) ==
    LET sim == RocketsimWrapper_set_game_config(w.sim_wrapper, new_config, FALSE)
        w1 == [w EXCEPT !.game_config = new_config,
                        !.obs_builder = IF new_obs_builder.some THEN new_obs_builder.val ELSE @,
                        !.sim_wrapper = sim]
    IN  Ok(Log(w1, <<OnState("sim_wrapper.set_game_config", 0, 0, Snapshot(sim))>>),
           Snapshot(sim))

\* mutant of update_settings: the backend is told to restart the match
update_settings_restarts(w, new_config, new_obs_builder) ==
    LET sim == RocketsimWrapper_set_game_config(w.sim_wrapper, new_config, TRUE)
        w1 == [w EXCEPT !.game_config = new_config,
                        !.agents = car_count(new_config),
                        !.obs_builder = IF new_obs_builder.some THEN new_obs_builder.val ELSE @,
                        !.sim_wrapper = sim]
    IN  Ok(Log(w1, <<OnState("sim_wrapper.set_game_config", 1, 0, Snapshot(sim))>>),
           Snapshot(sim))

\* GameMatch::update_settings
update_settings(w, new_config, new_obs_builder) ==
    LET sim == RocketsimWrapper_set_game_config(w.sim_wrapper, new_config, FALSE)
        w1 == [w EXCEPT !.game_config = new_config,
                        !.agents = car_count(new_config),
                        !.obs_builder = IF new_obs_builder.some THEN new_obs_builder.val ELSE @,
                        !.sim_wrapper = sim]
    IN  Ok(Log(w1, <<OnState("sim_wrapper.set_game_config", 0, 0, Snapshot(sim))>>),
           Snapshot(sim))

----------------------------------------------------------------------------
(* Gym: the environment facade (src/src/gym.rs) *)

\* `as f32` of an i32 (line 76): exact up to 2^24, beyond it the value is
\* rounded to the 24-bit mantissa
as_f32(x) ==
    IF -16777216 <= x /\ x <= 16777216 THEN x ELSE (x \div 256) * 256

\* Gym::reset
Gym_reset(w, seed) ==
    LET w0 == IF seed.some THEN set_seeds(w, seed.val) ELSE w
        r1 == get_reset_state(w0)
        sim == RocketsimWrapper_set_state(r1.w.sim_wrapper, r1.val)
        state == Snapshot(sim)
        w2 == Log([r1.w EXCEPT !.sim_wrapper = sim],
                  <<Call("sim_wrapper.set_state", 0, 0, state, <<>>, r1.val)>>)
        r3 == episode_reset(w2, state)
    IN  IF ~r3.ok THEN Panic(r3.w)
        ELSE build_observations(
                 Log([r3.w EXCEPT !.prev_state = state],
                     <<OnState("gym.prev_state", 0, 0, state)>>),
                 state)

\* mutant of step_after_parse: the observations are built from the cached
\* previous snapshot
step_after_parse_stale_obs(w, actions, goal, is_terminal) ==
    LET sim == RocketsimWrapper_step(w.sim_wrapper, actions, goal)
        state == Snapshot(sim)
        w2 == Log([w EXCEPT !.sim_wrapper = sim],
                  <<Call("sim_wrapper.step", 0, 0, state, actions, NoWrapper)>>)
        r3 == build_observations(w2, w.prev_state)
    IN  IF ~r3.ok THEN Panic(r3.w)
        ELSE LET r4 == is_done(r3.w, state, is_terminal)
                 done == r4.val
                 w5 == Log([r4.w EXCEPT !.prev_state = state],
                           <<OnState("gym.prev_state", 0, 0, state)>>)
                 r6 == get_rewards(w5, state, done)
                 w7 == Log(r6.w, <<OnState("game_match.get_result", 0, 0, state)>>)
             IN  Ok(w7, [obs |-> r3.val, reward |-> r6.val, done |-> done,
                         info |-> [result |-> as_f32(get_result(w7, state))]])

\* Gym::step, lines 69-77: from the backend's advance to the returned tuple
step_after_parse(w, actions, goal, is_terminal) ==
    LET sim == RocketsimWrapper_step(w.sim_wrapper, actions, goal)
        state == Snapshot(sim)
        w2 == Log([w EXCEPT !.sim_wrapper = sim],
                  <<Call("sim_wrapper.step", 0, 0, state, actions, NoWrapper)>>)
        r3 == build_observations(w2, state)
    IN  IF ~r3.ok THEN Panic(r3.w)
        ELSE LET r4 == is_done(r3.w, state, is_terminal)
                 done == r4.val
                 w5 == Log([r4.w EXCEPT !.prev_state = state],
                           <<OnState("gym.prev_state", 0, 0, state)>>)
                 r6 == get_rewards(w5, state, done)
                 w7 == Log(r6.w, <<OnState("game_match.get_result", 0, 0, state)>>)
             IN  Ok(w7, [obs |-> r3.val, reward |-> r6.val, done |-> done,
                         info |-> [result |-> as_f32(get_result(w7, state))]])

\* mutant of Gym_step: a tick that came back done starts the next episode by
\* itself
Gym_step_auto_reset(w, actions, goal, is_terminal) ==
    LET r1 == parse_actions(w, actions, w.prev_state)
        r2 == step_after_parse(r1.w, r1.val, goal, is_terminal)
    IN  IF ~r1.ok THEN Panic(r1.w)
        ELSE IF r2.ok /\ r2.val.done
             THEN Ok(episode_reset(r2.w, r2.w.prev_state).w, r2.val)
             ELSE r2

\* Gym::step
Gym_step(w, actions, goal, is_terminal) ==
    LET r1 == parse_actions(w, actions, w.prev_state)
    IN  IF ~r1.ok THEN Panic(r1.w)
        ELSE step_after_parse(r1.w, r1.val, goal, is_terminal)

\* Gym::new: the world of GameMatch::new, then reset(None, None)
Gym_new(game_match) == Gym_reset(game_match, None)

----------------------------------------------------------------------------
(* The state machine *)

\* the world the variables hold, with an empty call log and a Terminal
\* Condition that would not call the coming tick truncated
World ==
    [game_config |-> game_config, agents |-> agents, use_single_obs |-> use_single_obs,
     obs_builder |-> obs_builder, prev_actions |-> prev_actions,
     spectator_ids |-> spectator_ids, initial_score |-> initial_score,
     sim_wrapper |-> sim_wrapper, prev_state |-> prev_state,
     episode_start |-> episode_start,
     terminal_condition |-> [truncates |-> FALSE], calls |-> <<>>]

Holds(w) ==
    /\ game_config = w.game_config
    /\ agents = w.agents
    /\ use_single_obs = w.use_single_obs
    /\ obs_builder = w.obs_builder
    /\ prev_actions = w.prev_actions
    /\ spectator_ids = w.spectator_ids
    /\ initial_score = w.initial_score
    /\ sim_wrapper = w.sim_wrapper
    /\ prev_state = w.prev_state
    /\ episode_start = w.episode_start
    /\ calls = w.calls

Becomes(w) ==
    /\ game_config' = w.game_config
    /\ agents' = w.agents
    /\ use_single_obs' = w.use_single_obs
    /\ obs_builder' = w.obs_builder
    /\ prev_actions' = w.prev_actions
    /\ spectator_ids' = w.spectator_ids
    /\ initial_score' = w.initial_score
    /\ sim_wrapper' = w.sim_wrapper
    /\ prev_state' = w.prev_state
    /\ episode_start' = w.episode_start
    /\ calls' = w.calls

NoStep == [obs |-> <<>>, reward |-> <<>>, done |-> FALSE, info |-> [result |-> 0]]

\* the record of one operation: which, whether it returned, its inputs and
\* what it returned
Returned(op, ok, obs, stepped, state, actions, seed, config, builders) ==
    [op |-> op, ok |-> ok, obs |-> obs, reward |-> stepped.reward, done |-> stepped.done,
     info |-> stepped.info, state |-> state, actions |-> actions, seed |-> seed,
     config |-> config, builders |-> builders, is_terminal |-> FALSE,
     is_truncated |-> FALSE]

Seeds == {None, Some(1)}
\* the raw actions tried on a roster of n_players with n_agents configured: one
\* vector per player, one too few, one too many, one per configured agent, and
\* one per configured agent with vectors that are not 8 long
RawActions(n_players, n_agents) ==
    {[i \in 1..n |-> FullAction] :
        n \in {n_players, n_players + 1, n_agents} \cup {m \in {n_players - 1} : m >= 0}}
    \cup {[i \in 1..n_agents |-> ShortAction]}
Goals == {"none", "blue", "orange"}
\* update_settings is given no builders, an empty set or MaxBuilders new ones
BuilderSets == {NoBuilders, Some(<<>>), Some(ReplacementBuilders(MaxBuilders))}

\* Gym::new(GameMatch::new(config)) returned: every construction that did not
\* panic
Init ==
    \E config \in Configs, single \in BOOLEAN, n \in 0..MaxBuilders :
        LET r == Gym_new(GameMatch_new(config, InitialBuilders(n), single))
        IN  /\ r.ok
            /\ Holds(r.w)
            /\ updates = 0
            /\ ret = Returned("new", TRUE, <<>>, NoStep, EmptyState, <<>>, None,
                              config, Some(InitialBuilders(n)))

\* a panic ends the life of the environment
Alive == ret.ok

\* gym.reset(None, seed)
Reset ==
    /\ Alive
    /\ \E seed \in Seeds :
        LET r == Gym_reset(World, seed)
        IN  /\ Becomes(r.w)
            /\ UNCHANGED updates
            /\ ret' = Returned("reset", r.ok, r.val, NoStep, EmptyState, <<>>, seed,
                               game_config, NoBuilders)

\* the variables after gym.step(actions) ended as r, the Terminal Condition
\* answering is_terminal if asked, and is_truncated as r's world holds
Stepped(r, actions, is_terminal) ==
    /\ Becomes(r.w)
    /\ UNCHANGED updates
    /\ ret' = [Returned("step", r.ok, IF r.ok THEN r.val.obs ELSE <<>>,
                        IF r.ok THEN r.val ELSE NoStep, EmptyState, actions, None,
                        game_config, NoBuilders)
               EXCEPT !.is_terminal = is_terminal,
                      !.is_truncated = r.w.terminal_condition.truncates]

\* gym.step(actions); once the actions are parsed, what the backend and the
\* Terminal Condition answer is theirs to choose
Step ==
    /\ Alive
    /\ \E actions \in RawActions(Len(prev_state.players), agents) :
        IF parse_actions(World, actions, prev_state).ok
        THEN \E goal \in Goals, is_terminal \in BOOLEAN, truncated \in BOOLEAN :
                /\ goal # "none" =>
                      sim_wrapper.blue_score + sim_wrapper.orange_score < MaxGoals
                /\ Stepped(Gym_step([World EXCEPT !.terminal_condition.truncates =
                                                      truncated],
                                    actions, goal, is_terminal),
                           actions, is_terminal)
        ELSE Stepped(Gym_step(World, actions, "none", FALSE), actions, FALSE)

\* gym._game_match.update_settings(new_config, new_obs_builder)
UpdateSettings ==
    /\ Alive
    /\ updates < MaxUpdates
    /\ updates' = updates + 1
    /\ \E new_config \in Configs, new_obs_builder \in BuilderSets :
        LET r == update_settings(World, new_config, new_obs_builder)
        IN  /\ Becomes(r.w)
            /\ ret' = Returned("update_settings", r.ok, <<>>, NoStep, r.val, <<>>, None,
                               new_config, new_obs_builder)

Next == Reset \/ Step \/ UpdateSettings

Spec == Init /\ [][Next]_vars

----------------------------------------------------------------------------
(* Properties *)

\* C1: in every reachable state agent_count is team_size*2 when
\* spawn_opponents is set and team_size otherwise, for the configuration the
\* orchestrator holds
C1_AgentCount ==
    agents = IF game_config.spawn_opponents THEN game_config.team_size * 2
             ELSE game_config.team_size

\* update_settings just changed the number of cars, opponents spawned
C1_Witness ==
    /\ ret.op = "update_settings"
    /\ game_config.spawn_opponents
    /\ agents = 2 * MaxTeamSize
    /\ Len(prev_state.players) # agents

\* C2 as stated: every reset() returns, and returns exactly agent_count
\* observations
C2_Original ==
    ret.op = "reset" => ret.ok /\ Len(ret.obs) = agents

\* C2, amended: a reset() that returns, returns exactly agent_count
\* observations; it returns when the shared builder exists (shared mode) or
\* at least agent_count builders are held (per-agent mode), and aborts
\* otherwise
C2_ResetObservations ==
    ret.op = "reset" =>
        /\ ret.ok <=> IF use_single_obs THEN Len(obs_builder) >= 1
                      ELSE Len(obs_builder) >= agents
        /\ ret.ok => Len(ret.obs) = agents

\* a reset in per-agent mode after a settings update returned one observation
\* per agent
C2_Witness ==
    /\ ret.op = "reset" /\ ret.ok
    /\ updates > 0
    /\ ~use_single_obs
    /\ Len(ret.obs) = agents
    /\ agents > 1

\* the actions of a step were one per configured agent, 8 long each
AgentCountActions ==
    /\ ret.op = "step"
    /\ Len(ret.actions) = agents
    /\ \A i \in 1..Len(ret.actions) : Len(ret.actions[i]) = ACTION_LEN

\* C3 as stated: such a step returns agent_count observations and rewards
C3_Original ==
    AgentCountActions =>
        /\ ret.ok
        /\ Len(ret.obs) = agents
        /\ Len(ret.reward) = agents
        /\ ret.done \in BOOLEAN

\* C3, amended: such a step aborts when prev_state's player count is not
\* agent_count or the builders do not cover the players; otherwise it returns
\* agent_count observations, agent_count rewards and a boolean done
C3_StepLengths ==
    AgentCountActions =>
        /\ ret.ok <=> /\ Len(calls[1].st.players) = agents
                      /\ IF use_single_obs THEN Len(obs_builder) >= 1
                         ELSE Len(obs_builder) >= agents
        /\ ret.ok => /\ Len(ret.obs) = agents
                     /\ Len(ret.reward) = agents
                     /\ ret.done \in BOOLEAN

\* a step with one 8-long action per agent returned, for several agents
C3_Witness ==
    /\ AgentCountActions
    /\ ret.ok
    /\ agents > 1
    /\ Len(ret.obs) = agents /\ Len(ret.reward) = agents

\* C4: a step whose raw actions are not one per player of the snapshot
\* aborts in parse_actions, before anything else is called; the backend only
\* ever receives as many parsed actions as there were raw actions and players
C4_ParseAborts ==
    ret.op = "step" =>
        /\ calls[1].fn = "action_parser.parse_actions"
        /\ calls[1].acts = ret.actions
        /\ Len(calls[1].acts) # Len(calls[1].st.players) =>
              ~ret.ok /\ Len(calls) = 1
        /\ Len(calls) > 1 =>
              /\ calls[2].fn = "sim_wrapper.step"
              /\ Len(calls[2].acts) = Len(ret.actions)
              /\ Len(calls[2].acts) = Len(calls[1].st.players)

\* a step with more raw actions than players aborted in parse_actions
C4_Witness ==
    /\ ret.op = "step" /\ ~ret.ok
    /\ Len(calls) = 1
    /\ Len(ret.actions) > Len(calls[1].st.players)
    /\ Len(calls[1].st.players) > 0

\* blue_score - orange_score of a snapshot
Differential(s) == s.blue_score - s.orange_score

\* C5: get_result of any snapshot is its score differential minus the
\* differential of the snapshot passed to the latest episode_reset, and the
\* "result" of a step is that of the step's new snapshot; after a reset at
\* 0-0 and a step ending 1-0 it is 1
C5_Result ==
    ret.ok =>
        /\ \A b, o \in 0..MaxGoals :
              get_result(World, [players |-> <<>>, blue_score |-> b, orange_score |-> o])
                  = (b - o) - Differential(episode_start)
        /\ ret.op = "step" =>
              /\ ret.info.result = Differential(calls[2].st) - Differential(episode_start)
              /\ (Differential(episode_start) = 0 /\ calls[2].st.blue_score = 1
                     /\ calls[2].st.orange_score = 0) => ret.info.result = 1

\* a step returned result 1 on a 1-0 snapshot in an episode reset at 0-0
C5_Witness ==
    /\ ret.op = "step" /\ ret.ok
    /\ episode_start.blue_score = 0 /\ episode_start.orange_score = 0
    /\ calls[2].st.blue_score = 1 /\ calls[2].st.orange_score = 0
    /\ ret.info.result = 1

IsRewardCall(c) ==
    c.fn \in {"reward_fn.pre_step", "reward_fn.get_reward", "reward_fn.get_final_reward"}

\* C6: in a step that returns, the Reward Function sees pre_step once and
\* then one call per player of the new snapshot, in player order:
\* get_final_reward for every player when is_terminal answered true,
\* get_reward for every player otherwise; the rewards returned are those
\* scalars in that order
C6_Rewards ==
    ret.op = "step" /\ ret.ok =>
        LET S == calls[2].st
            n == Len(S.players)
        IN  /\ ret.done = ret.is_terminal
            /\ SelectSeq(calls, IsRewardCall)
                 = <<OnState("reward_fn.pre_step", 0, 0, S)>>
                   \o [i \in 1..n |->
                         OnState(IF ret.is_terminal THEN "reward_fn.get_final_reward"
                                 ELSE "reward_fn.get_reward", 0, S.players[i], S)]
            /\ ret.reward
                 = [i \in 1..n |->
                       [kind |-> IF ret.is_terminal THEN "final_reward" ELSE "reward",
                        car |-> S.players[i], st |-> S]]

\* a terminal step rewarded several players, all by final_reward
C6_Witness ==
    /\ ret.op = "step" /\ ret.ok
    /\ ret.is_terminal
    /\ Len(ret.reward) > 1
    /\ \A i \in 1..Len(ret.reward) : ret.reward[i].kind = "final_reward"

IsObsCall(c) == c.fn \in {"obs_builder.pre_step", "obs_builder.build_obs"}

IsBackendCall(c) == c.fn \in {"sim_wrapper.set_state", "sim_wrapper.step"}

\* C7: with use_single_obs, a reset or step that returns has called the
\* shared builder's pre_step once and then its build once per player of the
\* snapshot the backend returned, in player order, and nothing else on any
\* builder
C7_SharedBuilder ==
    use_single_obs /\ ret.ok /\ ret.op \in {"new", "reset", "step"} =>
        LET S == SelectSeq(calls, IsBackendCall)[1].st
            b == obs_builder[1]
        IN  SelectSeq(calls, IsObsCall)
              = <<OnState("obs_builder.pre_step", b, 0, S)>>
                \o [i \in 1..Len(S.players) |->
                      OnState("obs_builder.build_obs", b, S.players[i], S)]

\* a step in shared mode built for several players while several builders
\* are held
C7_Witness ==
    /\ use_single_obs /\ ret.ok /\ ret.op = "step"
    /\ Len(prev_state.players) > 1
    /\ Len(obs_builder) > 1
    /\ Len(SelectSeq(calls, IsObsCall)) = 1 + Len(prev_state.players)

C9_StepOrder ==
    [][ret'.op = "step" =>
        /\ calls'[1] = Call("action_parser.parse_actions", 0, 0, prev_state,
                           ret'.actions, NoWrapper)
        /\ Len(calls') = 1 => ~ret'.ok /\ sim_wrapper' = sim_wrapper
        /\ Len(calls') > 1 =>
             /\ calls'[2].fn = "sim_wrapper.step"
             /\ calls'[2].acts = ActionParser_parse_actions(ret'.actions, prev_state)
             /\ calls'[2].st = Snapshot(sim_wrapper')
             /\ \A i \in 3..Len(calls') :
                   ~IsBackendCall(calls'[i]) /\ calls'[i].st = calls'[2].st
        /\ ret'.ok =>
             LET S == calls'[2].st
             IN  /\ \E i \in 3..Len(calls') : calls'[i].fn = "obs_builder.build_obs"
                 /\ \E i \in 3..Len(calls') :
                       calls'[i].fn = "terminal_condition.is_terminal"
                 /\ \E i \in 3..Len(calls') : calls'[i].fn = "reward_fn.pre_step"
                 /\ calls'[Len(calls')].fn = "game_match.get_result"
                 /\ \A i \in 1..Len(ret'.obs) : ret'.obs[i].st = S
                 /\ \A i \in 1..Len(ret'.reward) : ret'.reward[i].st = S
                 /\ ret'.info.result = Differential(S) - initial_score'
                 /\ prev_state' = S]_vars

\* a step returned whose new snapshot differs from the one the actions were
\* parsed against
C9_Witness ==
    /\ ret.op = "step" /\ ret.ok
    /\ calls[1].st # calls[2].st
    /\ prev_state = calls[2].st
    /\ Len(ret.obs) > 1

\* C10: a reset that returns has, in this order, forwarded the seed if one
\* was given, had the State Setter build a wrapper for the current team_size
\* and spawn_opponents, applied the setter's reset to that wrapper, had the
\* backend adopt it, called episode_reset with the snapshot the backend
\* returned, cached that snapshot as prev_state and built the returned
\* observations from it
C10_ResetOrder ==
    ret.op = "reset" /\ ret.ok =>
        LET k == IF ret.seed.some THEN 1 ELSE 0
            built == calls[k + 1].wrap
            S == calls[k + 3].st
            cached == CHOOSE i \in 1..Len(calls) : calls[i].fn = "gym.prev_state"
        IN  /\ ret.seed.some =>
                  calls[1] = OnState("state_setter.set_seed", ret.seed.val, 0, EmptyState)
            /\ \A i \in (k + 1)..Len(calls) : calls[i].fn # "state_setter.set_seed"
            /\ calls[k + 1].fn = "state_setter.build_wrapper"
            /\ calls[k + 1].who = game_config.team_size
            /\ calls[k + 1].car = IF game_config.spawn_opponents THEN 1 ELSE 0
            /\ ~built.is_reset
            /\ calls[k + 2].fn = "state_setter.reset" /\ calls[k + 2].wrap = built
            /\ calls[k + 3].fn = "sim_wrapper.set_state"
            /\ calls[k + 3].wrap = [built EXCEPT !.is_reset = TRUE]
            /\ S = Snapshot(sim_wrapper)
            /\ S.players = built.cars
            /\ calls[k + 4] = OnState("game_match.episode_reset", 0, 0, S)
            /\ cached > k + 4
            /\ calls[cached].st = S /\ prev_state = S
            /\ \A i \in (k + 5)..(cached - 1) :
                  /\ calls[i].fn \in {"terminal_condition.reset", "reward_fn.reset",
                                      "obs_builder.reset"}
                  /\ calls[i].st = S
            /\ \A i \in (cached + 1)..Len(calls) : IsObsCall(calls[i]) /\ calls[i].st = S
            /\ Len(ret.obs) = Len(S.players)
            /\ \A i \in 1..Len(ret.obs) : ret.obs[i].st = S /\ ret.obs[i].car = S.players[i]

\* a seeded reset returned observations for several agents
C10_Witness ==
    /\ ret.op = "reset" /\ ret.ok
    /\ ret.seed.some
    /\ calls[1].fn = "state_setter.set_seed"
    /\ Len(ret.obs) > 1
    /\ prev_state = calls[4].st

\* the calls that begin an episode: forcing the backend's state, the
\* orchestrator's episode_reset, and the reset of a strategy component
IsResetCall(c) ==
    c.fn \in {"sim_wrapper.set_state", "game_match.episode_reset",
              "terminal_condition.reset", "reward_fn.reset", "obs_builder.reset",
              "state_setter.reset", "state_setter.build_wrapper"}

\* C11: a step never forces the backend's state, never calls episode_reset and
\* never resets a strategy component, whether or not it or the step before it
\* came back done; initial_score, spectator_ids and the episode's start change
\* only in an explicit reset(), and a step writes to prev_actions nothing but
\* the actions it parsed
C11_NoAutoReset ==
    [][/\ ret'.op = "step" =>
             /\ SelectSeq(calls', IsResetCall) = <<>>
             /\ initial_score' = initial_score
             /\ spectator_ids' = spectator_ids
             /\ episode_start' = episode_start
             /\ \/ prev_actions' = prev_actions
                \/ prev_actions' = ActionParser_parse_actions(ret'.actions, prev_state)
       /\ (\/ initial_score' # initial_score
           \/ spectator_ids' # spectator_ids
           \/ episode_start' # episode_start) => ret'.op = "reset"]_vars

\* a step came back done with the score moved since the episode began, and
\* the episode's bookkeeping is still that of its start
C11_Witness ==
    /\ ret.op = "step" /\ ret.ok /\ ret.done
    /\ Differential(prev_state) # Differential(episode_start)
    /\ initial_score = Differential(episode_start)
    /\ spectator_ids = episode_start.players
    /\ prev_actions # [i \in 1..Len(prev_actions) |-> ZeroAction]

\* C12: the done flag of a step that returns is the Terminal Condition's
\* is_terminal on the new snapshot and nothing else: is_truncated is not
\* asked, is not part of done and is not in info, which holds "result" only;
\* on a tick that is truncated but not terminal done is false and every
\* agent's reward is the ordinary one
C12_DoneIsTerminal ==
    ret.op = "step" /\ ret.ok =>
        /\ ret.done = ret.is_terminal
        /\ \A i \in 1..Len(calls) : calls[i].fn # "terminal_condition.is_truncated"
        /\ Len(SelectSeq(calls, LAMBDA c : c.fn = "terminal_condition.is_terminal")) = 1
        /\ \A i \in 1..Len(calls) :
              calls[i].fn = "terminal_condition.is_terminal" => calls[i].st = prev_state
        /\ DOMAIN ret.info = {"result"}
        /\ ret.is_truncated /\ ~ret.is_terminal =>
              /\ ~ret.done
              /\ ret.reward = [i \in 1..Len(prev_state.players) |->
                                  RewardFn_get_reward(prev_state.players[i], prev_state)]

\* a truncated, non-terminal tick returned rewards for several agents
C12_Witness ==
    /\ ret.op = "step" /\ ret.ok
    /\ ret.is_truncated /\ ~ret.is_terminal
    /\ ~ret.done
    /\ Len(ret.reward) > 1
    /\ \A i \in 1..Len(ret.reward) : ret.reward[i].kind = "reward"

\* C13 as stated: after construction and after every reset, step and
\* update_settings that returned, prev_state is the snapshot the backend
\* produced last (the one set_state, step or set_game_config returned), which
\* is the snapshot the next parse_actions is given
C13_Original ==
    ret.ok =>
        /\ prev_state = Snapshot(sim_wrapper)
        /\ ret.op = "update_settings" => prev_state = ret.state

\* C14: in per-agent mode, a reset or step whose backend snapshot has more
\* players than builders are held aborts in build_observations before any
\* builder's pre_step or build is called, and returns no observations; a
\* reset or step that returns, returns one observation per player, never fewer
C14_TooFewBuilders ==
    LET S == Snapshot(sim_wrapper)
    IN  (/\ ~use_single_obs
         /\ ret.op \in {"reset", "step"}
         /\ \E i \in 1..Len(calls) : IsBackendCall(calls[i]) /\ calls[i].st = S) =>
            /\ Len(S.players) > Len(obs_builder) =>
                  /\ ~ret.ok
                  /\ SelectSeq(calls, IsObsCall) = <<>>
                  /\ ret.obs = <<>>
            /\ ret.ok => Len(ret.obs) = Len(S.players)

\* a step advanced the backend to a snapshot of two players with one builder
\* held, and aborted
C14_Witness ==
    /\ ~use_single_obs
    /\ ret.op = "step" /\ ~ret.ok
    /\ Len(calls) = 2 /\ calls[2].fn = "sim_wrapper.step"
    /\ Len(obs_builder) >= 1
    /\ Len(calls[2].st.players) > Len(obs_builder)

\* C15: in per-agent mode, a reset or step that returns has called pre_step
\* once on every builder held, in order and before any build, those beyond
\* the player count included, and then build once on builder i for player i
\* of the backend's snapshot; it returns these observations in player order,
\* and the builders beyond the player count build nothing
C15_PerAgentBuilders ==
    LET S == Snapshot(sim_wrapper)
        nb == Len(obs_builder)
        n == Len(S.players)
    IN  ~use_single_obs /\ ret.op \in {"reset", "step"} /\ ret.ok =>
            /\ nb >= n
            /\ SelectSeq(calls, IsObsCall) =
                  [i \in 1..nb |-> OnState("obs_builder.pre_step", obs_builder[i], 0, S)]
                  \o [i \in 1..n |-> OnState("obs_builder.build_obs", obs_builder[i],
                                             S.players[i], S)]
            /\ ret.obs = [i \in 1..n |-> ObsBuilder_build_obs(obs_builder[i], S.players[i], S)]

\* a step returned with more builders held than the snapshot has players
C15_Witness ==
    /\ ~use_single_obs
    /\ ret.op = "step" /\ ret.ok
    /\ Len(obs_builder) > Len(prev_state.players)
    /\ Len(ret.obs) = Len(prev_state.players)
    /\ Len(SelectSeq(calls, LAMBDA c : c.fn = "obs_builder.pre_step")) = Len(obs_builder)
    /\ Len(SelectSeq(calls, LAMBDA c : c.fn = "obs_builder.build_obs")) = Len(ret.obs)

\* C16 as stated: right after an episode_reset prev_actions is agent_count
\* vectors of 8 zeros, and in every reachable state it holds one vector of
\* length 8 per agent slot
C16_Original ==
    /\ ret.op \in {"new", "reset"} => prev_actions = [i \in 1..agents |-> ZeroAction]
    /\ Len(prev_actions) = agents
    /\ \A i \in 1..Len(prev_actions) : Len(prev_actions[i]) = ACTION_LEN

\* C16, amended: right after an episode_reset (construction's included)
\* prev_actions is agent_count vectors of 8 zeros; a step whose actions parse
\* replaces it by the parsed actions, one per player of the snapshot they were
\* parsed against; a step that aborts in parsing and update_settings leave it
\* as it was, whatever the new agent_count
C16_PrevActions ==
    /\ [](ret.op \in {"new", "reset"} => prev_actions = [i \in 1..agents |-> ZeroAction])
    /\ [][/\ ret'.op = "step" =>
                LET parsed == ActionParser_parse_actions(ret'.actions, prev_state)
                IN  IF Len(parsed) = Len(prev_state.players)
                    THEN /\ prev_actions' = parsed
                         /\ Len(prev_actions') = Len(prev_state.players)
                    ELSE prev_actions' = prev_actions
          /\ ret'.op = "update_settings" => prev_actions' = prev_actions]_vars

\* update_settings changed agent_count after a step had stored its parsed
\* actions, and prev_actions still holds one entry per player of the old
\* roster
C16_Witness ==
    /\ ret.op = "update_settings"
    /\ Len(prev_actions) # agents
    /\ Len(prev_actions) = Len(prev_state.players)
    /\ prev_actions # [i \in 1..Len(prev_actions) |-> ZeroAction]

IsStrategyReset(c) ==
    c.fn \in {"terminal_condition.reset", "reward_fn.reset", "obs_builder.reset"}

\* C17: every episode_reset (construction's and each reset's) forwards reset
\* once to the Terminal Condition, once to the Reward Function, and to the
\* Observation Builders once in total in shared mode (the shared instance
\* only) and once per instance held otherwise, all with the snapshot
\* episode_reset was given; with no shared instance to reset, it aborts after
\* the first two
C17_StrategyResets ==
    LET S == episode_start
        nb == Len(obs_builder)
        builders == IF use_single_obs THEN 1..Min(1, nb) ELSE 1..nb
    IN  ret.op \in {"new", "reset"} =>
            /\ S = Snapshot(sim_wrapper)
            /\ Len(SelectSeq(calls, LAMBDA c : c.fn = "game_match.episode_reset")) = 1
            /\ SelectSeq(calls, IsStrategyReset) =
                  <<OnState("terminal_condition.reset", 0, 0, S),
                    OnState("reward_fn.reset", 0, 0, S)>>
                  \o [i \in builders |-> OnState("obs_builder.reset", obs_builder[i], 0, S)]

\* a reset in shared mode with several builders held reset the first of them
\* only
C17_Witness ==
    /\ ret.op = "reset" /\ ret.ok
    /\ use_single_obs /\ Len(obs_builder) > 1
    /\ Len(SelectSeq(calls, LAMBDA c : c.fn = "obs_builder.reset")) = 1
    /\ Len(SelectSeq(calls, LAMBDA c : c.fn = "reward_fn.reset")) = 1
    /\ Len(SelectSeq(calls, LAMBDA c : c.fn = "terminal_condition.reset")) = 1

\* C18: update_settings replaces the configuration by the one passed and
\* forwards it to the backend with restart = false, which is the only call
\* it makes: no episode_reset, no reset of a strategy component; it leaves
\* initial_score, spectator_ids, prev_actions and the shared-builder mode as
\* they were, and the builders too when none are passed, replacing them
\* wholesale by the ones passed otherwise
C18_UpdateFrame ==
    [][ret'.op = "update_settings" =>
          /\ ret'.ok
          /\ game_config' = ret'.config
          /\ sim_wrapper' = RocketsimWrapper_set_game_config(sim_wrapper, ret'.config, FALSE)
          /\ calls' = <<OnState("sim_wrapper.set_game_config", 0, 0, Snapshot(sim_wrapper'))>>
          /\ initial_score' = initial_score
          /\ spectator_ids' = spectator_ids
          /\ prev_actions' = prev_actions
          /\ use_single_obs' = use_single_obs
          /\ obs_builder' = IF ret'.builders.some THEN ret'.builders.val ELSE obs_builder]_vars

\* update_settings was passed new builders in the middle of an episode with
\* the score moved: the builders are the new ones, the score stands, the
\* episode's bookkeeping is that of its start
C18_Witness ==
    /\ ret.op = "update_settings"
    /\ ret.builders.some /\ obs_builder = ret.builders.val /\ obs_builder # <<>>
    /\ game_config = ret.config
    /\ sim_wrapper.blue_score + sim_wrapper.orange_score > 0
    /\ initial_score = Differential(episode_start)
    /\ spectator_ids = episode_start.players
    /\ prev_actions # [i \in 1..Len(prev_actions) |-> ZeroAction]

\* C19: a step whose parsed actions are not one per player of prev_state
\* aborts with the Action Parser's call as its only call: the backend is not
\* advanced, and the backend, prev_actions and prev_state are what they were
\* before the step
C19_AbortedStepFrame ==
    [][(/\ ret'.op = "step"
        /\ Len(ActionParser_parse_actions(ret'.actions, prev_state))
               # Len(prev_state.players)) =>
          /\ ~ret'.ok
          /\ calls' = <<Call("action_parser.parse_actions", 0, 0, prev_state,
                             ret'.actions, NoWrapper)>>
          /\ sim_wrapper' = sim_wrapper
          /\ prev_actions' = prev_actions
          /\ prev_state' = prev_state]_vars

\* a step with one action too many aborted in the middle of an episode: the
\* actions stored are those of the step before, for the players of
\* prev_state, which is the backend's snapshot
C19_Witness ==
    /\ ret.op = "step" /\ ~ret.ok
    /\ Len(calls) = 1
    /\ Len(ret.actions) > Len(prev_state.players)
    /\ Len(prev_actions) = Len(prev_state.players)
    /\ prev_actions # [i \in 1..Len(prev_actions) |-> ZeroAction]
    /\ prev_state = Snapshot(sim_wrapper)
    /\ prev_state # episode_start

\* C20: initial_score is written by episode_reset only: a step, with all the
\* orchestrator methods it calls, leaves initial_score, the configuration and
\* agent_count as they were, and update_settings leaves initial_score; so
\* get_result of the snapshot given to the latest episode_reset is 0 whatever
\* the scores, and every step of an episode reports its result against the
\* differential of that same snapshot
C20_InitialScoreFrame ==
    /\ [](ret.ok => /\ initial_score = Differential(episode_start)
                    /\ get_result(World, episode_start) = 0)
    /\ [][/\ ret'.op = "step" =>
                /\ initial_score' = initial_score
                /\ game_config' = game_config
                /\ agents' = agents
                /\ ret'.ok => ret'.info.result =
                                  as_f32(Differential(Snapshot(sim_wrapper'))
                                         - Differential(episode_start))
          /\ initial_score' # initial_score => ret'.op = "reset"]_vars

\* an episode began with the score not level, and a step of it reported 0
C20_Witness ==
    /\ ret.op = "step" /\ ret.ok
    /\ Differential(episode_start) # 0
    /\ initial_score = Differential(episode_start)
    /\ ret.info.result = 0
    /\ get_result(World, episode_start) = 0

====
